---- MODULE Spec2Model ----
(***************************************************************************)
(* Model of the message store of actix-posts (src/handler/data.rs): one    *)
(* JSON file holding a Vec<Message>, read whole and written whole by every *)
(* operation.                                                              *)
(***************************************************************************)
EXTENDS Integers, Sequences, FiniteSets, TLC

\* ------------------------------------------------------------------ bounds
\* Largest number of records a store may hold before create is disabled.
MaxLen == 3
\* Largest id the store may hold before create is disabled.
MaxId == 3
\* Largest number of records of a store drawn by InitStored.
MaxStored == 2
\* Largest id the store may hold before a concurrent create is disabled.
MaxConcId == 2
\* Largest id of the store beyond which the create handlers are disabled.
MaxApiId == 2

\* ------------------------------------------------------- program constants
\* i32::MAX and i32::MIN, the range of Message.id.
MaxI32 == 2147483647
MinI32 == (-2147483647) - 1

\* ------------------------------------------------------------ value sets
\* The (posted, sender, content) triples the callers submit.  A string of
\* `posted` is the sequence of its code units, so that String::cmp can be
\* computed; "" is <<>>.
Payloads ==
  { [posted |-> <<>>,  sender |-> "",  content |-> ""],
    [posted |-> <<2>>, sender |-> "b", content |-> "y"] }

\* The (posted, sender, content) triples of a store drawn by InitStored.
StoredPayloads ==
  Payloads \cup {[posted |-> <<1, 0>>, sender |-> "a", content |-> "x"]}

\* Ids the callers pass to get, update and remove.
ArgIds == {-1, 0} \cup (1 .. MaxId)

\* Ids carried by the candidate handed to create (overwritten by create).
CandidateIds == {0, 2}

\* Ids of the records of a store drawn by InitStored.
StoredIds == {-1, 1}

\* struct Message
Message(id, p) ==
  [posted |-> p.posted, sender |-> p.sender, content |-> p.content, id |-> id]

\* Message::default() (derive(Default)): id 0 and three empty strings.
MessageDefault == [posted |-> <<>>, sender |-> "", content |-> "", id |-> 0]

\* Option<T> is a sequence of at most one element.
None == <<>>
Some(v) == <<v>>

\* --------------------------------------------------------- the file system
\* data.json: kind "missing" (no file), "unreadable" (read_to_string fails),
\* "malformed" (text that is not a JSON array of messages) or "json" (the
\* text serde_json::to_string writes).  messages are the message objects the
\* text holds.
FileMissing == [kind |-> "missing", messages |-> <<>>]

\* std::fs::read_to_string(filename).ok()
read_to_string(f) ==
  IF f.kind \in {"missing", "unreadable"} THEN None ELSE Some(f)

\* Mutant of from_str: a text that is not an array of messages still yields
\* the message objects it holds.
from_str_lenient(data) == Some(data.messages)

\* serde_json::from_str::<Vec<Message>>(&data).ok()
from_str(data) ==
  IF data.kind = "json" THEN Some(data.messages) ELSE None

\* serde_json::to_string(&messages).unwrap()
to_string(messages) == [kind |-> "json", messages |-> messages]

\* The volume that holds data.json: "ok", "denied" (the file cannot be opened
\* for writing) or "full" (the file is opened and truncated, the text does not
\* fit).
VARIABLE disk

\* What a write that fails after truncating the file leaves: a text that is
\* not a JSON array.
FileTruncated == [kind |-> "malformed", messages |-> <<>>]

\* Mutant of fs_write: the Result of the write is dropped (let _ = ...).
fs_write_unchecked(f, text) ==
  IF disk = "ok" THEN [ok |-> TRUE, file |-> text]
  ELSE IF disk = "denied" THEN [ok |-> TRUE, file |-> f]
  ELSE [ok |-> TRUE, file |-> FileTruncated]

\* std::fs::write(DATA_FILENAME, text): File::create, then write_all.  It
\* replaces the whole file of f, or fails: ok is the Result being Ok, file is
\* what data.json holds afterwards.
fs_write(f, text) ==
  IF disk = "ok" THEN [ok |-> TRUE, file |-> text]
  ELSE IF disk = "denied" THEN [ok |-> FALSE, file |-> f]
  ELSE [ok |-> FALSE, file |-> FileTruncated]

\* read_messages_from_file
read_messages_from_file(f) ==
  LET data == read_to_string(f)
  IN  IF data = None THEN <<>>
      ELSE LET parsed == from_str(data[1])
           IN  IF parsed = None THEN <<>> ELSE parsed[1]

\* ----------------------------------------------------------------- strings
\* <String as Ord>::cmp: lexicographic on the code units, a proper prefix is
\* Less.
RECURSIVE cmp(_, _)
cmp(s, t) ==
  IF s = <<>> /\ t = <<>> THEN "Equal"
  ELSE IF s = <<>> THEN "Less"
  ELSE IF t = <<>> THEN "Greater"
  ELSE IF Head(s) < Head(t) THEN "Less"
  ELSE IF Head(s) > Head(t) THEN "Greater"
  ELSE cmp(Tail(s), Tail(t))

\* Mutant of the closure of get_all: the operands are not swapped, which
\* sorts ascending.
by_posted_asc(a, b) == cmp(a.posted, b.posted)

\* The closure of get_all: |a, b| b.posted.cmp(&a.posted)
by_posted_desc(a, b) == cmp(b.posted, a.posted)

\* slice::sort_by is a stable sort: x goes before the first element it is
\* Less than, elements are taken in their original order.
RECURSIVE sort_insert(_, _)
sort_insert(x, s) ==
  IF s = <<>> THEN <<x>>
  ELSE IF by_posted_desc(x, Head(s)) = "Less" THEN <<x>> \o s
  ELSE <<Head(s)>> \o sort_insert(x, Tail(s))

RECURSIVE sort_by(_)
sort_by(s) ==
  IF s = <<>> THEN <<>>
  ELSE sort_insert(s[Len(s)], sort_by(SubSeq(s, 1, Len(s) - 1)))

\* ------------------------------------------------------------- arithmetic
\* a + b on i32, b > 0: with overflow checks (debug profile) an overflow
\* panics, without them (release profile) it wraps.
i32_add(a, b, checks) ==
  IF a > MaxI32 - b
    THEN IF checks THEN [ok |-> FALSE, value |-> 0]
         ELSE [ok |-> TRUE, value |-> MinI32 + ((a - (MaxI32 - b)) - 1)]
    ELSE [ok |-> TRUE, value |-> a + b]

\* Mutant of max_id: the id of the last record, as if the ids were stored
\* in increasing order.
max_id_last(messages) ==
  IF messages = <<>> THEN 0 ELSE messages[Len(messages)].id

\* Mutant of max_id: min() in place of max().
max_id_min(messages) ==
  IF messages = <<>> THEN 0
  ELSE LET ids == {messages[i].id : i \in 1 .. Len(messages)}
       IN  CHOOSE m \in ids : \A n \in ids : m <= n

\* messages.iter().map(|m| m.id).max().unwrap_or_default()
RECURSIVE max_id(_)
max_id(messages) ==
  IF messages = <<>> THEN 0
  ELSE IF Len(messages) = 1 THEN messages[1].id
  ELSE LET rest == max_id(Tail(messages))
       IN  IF messages[1].id > rest THEN messages[1].id ELSE rest

\* Mutant of position: rposition, the index of the last match.
position_last(messages, id) ==
  LET hits == {i \in 1 .. Len(messages) : messages[i].id = id}
  IN  IF hits = {} THEN None
      ELSE Some(CHOOSE i \in hits : \A j \in hits : j <= i)

\* messages.iter().position(|m| m.id == id): index of the first match.
position(messages, id) ==
  LET hits == {i \in 1 .. Len(messages) : messages[i].id = id}
  IN  IF hits = {} THEN None
      ELSE Some(CHOOSE i \in hits : \A j \in hits : i <= j)

\* Mutant of retain: the predicate is inverted (item.id == id).
retain_inverted(messages, id) ==
  SelectSeq(messages, LAMBDA item : item.id = id)

\* Mutant of retain: only the first match is taken out.
retain_first_only(messages, id) ==
  LET hits == {i \in 1 .. Len(messages) : messages[i].id = id}
  IN  IF hits = {} THEN messages
      ELSE LET k == CHOOSE i \in hits : \A j \in hits : i <= j
           IN  SubSeq(messages, 1, k - 1)
                 \o SubSeq(messages, k + 1, Len(messages))

\* messages.retain(|item| item.id != id)
retain(messages, id) == SelectSeq(messages, LAMBDA item : item.id # id)

\* ------------------------------------------------------------- operations
\* Each operation maps the file (and the build profile) to its outcome, the
\* file it leaves, and the value it returns.
Unit(outcome, f) ==
  [outcome |-> outcome, file |-> f, item |-> MessageDefault, items |-> <<>>,
   wrote |-> FALSE]

\* fs_write(..).unwrap() of an operation that returns (): a failed write
\* panics.
Unwrapped(w) ==
  [Unit(IF w.ok THEN "ok" ELSE "panic", w.file) EXCEPT !.wrote = TRUE]

\* Mutant of get_all: the sorted collection is written back.
get_all_write_back(f) ==
  LET messages == read_messages_from_file(f)
  IN  [outcome |-> "ok",
       file |-> fs_write(f, to_string(sort_by(messages))).file,
       item |-> MessageDefault, items |-> sort_by(messages)]

\* pub fn get_all() -> Vec<Message>
get_all(f) ==
  LET messages == read_messages_from_file(f)
  IN  [outcome |-> "ok", file |-> f, item |-> MessageDefault,
       items |-> sort_by(messages)]

\* Mutant of get: the record is looked up in the sorted list of get_all.
get_sorted(f, id) ==
  LET messages == sort_by(read_messages_from_file(f))
      found == position(messages, id)
  IN  [outcome |-> "ok", file |-> f,
       item |-> IF found = None THEN MessageDefault ELSE messages[found[1]],
       items |-> <<>>]

\* pub fn get(id: i32) -> Message
get(f, id) ==
  LET messages == read_messages_from_file(f)
      found == position(messages, id)
  IN  [outcome |-> "ok", file |-> f,
       item |-> IF found = None THEN MessageDefault ELSE messages[found[1]],
       items |-> <<>>]

\* Mutant of create: the new id is the number of records plus one.
create_len(f, message, checks) ==
  LET messages == read_messages_from_file(f)
      sum == i32_add(Len(messages), 1, checks)
  IN  IF ~sum.ok THEN Unit("panic", f)
      ELSE LET pushed == Append(messages, [message EXCEPT !.id = sum.value])
               w == fs_write(f, to_string(pushed))
           IN  IF ~w.ok THEN Unwrapped(w)
               ELSE [outcome |-> "ok", file |-> w.file,
                     item |-> pushed[Len(pushed)], items |-> <<>>,
                     wrote |-> TRUE]

\* Mutant of create: message.id is not overwritten.
create_keep_id(f, message, checks) ==
  LET messages == read_messages_from_file(f)
      pushed == Append(messages, message)
      w == fs_write(f, to_string(pushed))
  IN  IF ~w.ok THEN Unwrapped(w)
      ELSE [outcome |-> "ok", file |-> w.file,
            item |-> pushed[Len(pushed)], items |-> <<>>, wrote |-> TRUE]

\* Mutant of create: the new id is the highest stored id itself.
create_zero_based(f, message, checks) ==
  LET messages == read_messages_from_file(f)
      pushed == Append(messages, [message EXCEPT !.id = max_id(messages)])
      w == fs_write(f, to_string(pushed))
  IN  IF ~w.ok THEN Unwrapped(w)
      ELSE [outcome |-> "ok", file |-> w.file,
            item |-> pushed[Len(pushed)], items |-> <<>>, wrote |-> TRUE]

\* pub fn create(mut message: Message) -> Message
create(f, message, checks) ==
  LET messages == read_messages_from_file(f)
      max == max_id(messages)
      sum == i32_add(max, 1, checks)
  IN  IF ~sum.ok THEN Unit("panic", f)
      ELSE LET pushed == Append(messages, [message EXCEPT !.id = sum.value])
               w == fs_write(f, to_string(pushed))
           IN  IF ~w.ok THEN Unwrapped(w)
               ELSE [outcome |-> "ok", file |-> w.file,
                     item |-> pushed[Len(pushed)], items |-> <<>>,
                     wrote |-> TRUE]

\* Mutant of update: the id is taken for the place of the record.
update_by_index(f, message) ==
  LET messages == read_messages_from_file(f)
  IN  IF message.id \notin 1 .. Len(messages) THEN Unit("ok", f)
      ELSE Unwrapped(
             fs_write(f, to_string([messages EXCEPT ![message.id] = message])))

\* Mutant of update: the collection is written back also when no record
\* has the id.
update_write_always(f, message) ==
  LET messages == read_messages_from_file(f)
      index == position(messages, message.id)
  IN  IF index = None THEN Unwrapped(fs_write(f, to_string(messages)))
      ELSE Unwrapped(
             fs_write(f, to_string([messages EXCEPT ![index[1]] = message])))

\* pub fn update(message: &Message)
update(f, message) ==
  LET messages == read_messages_from_file(f)
      index == position(messages, message.id)
  IN  IF index = None THEN Unit("ok", f)
      ELSE Unwrapped(
             fs_write(f, to_string([messages EXCEPT ![index[1]] = message])))

\* pub fn remove(id: i32)
remove(f, id) ==
  LET messages == read_messages_from_file(f)
  IN  Unwrapped(fs_write(f, to_string(retain(messages, id))))

\* --------------------------------------------------------------- handlers
\* The format query parameter (Queries.format: Option<String>).
Formats == {None, Some("xml"), Some("XML"), Some("yaml"), Some("")}

\* The instants Local::now() returns.
Clock == {3, 4}

\* now.format("%Y-%m-%d %H:%M:%S").to_string(): the code units of the
\* instant's text.
format_time(now) == <<now>>

\* enum ResponseContent
Items(posts) == [kind |-> "Items", item |-> MessageDefault, items |-> posts]
Item(post) == [kind |-> "Item", item |-> post, items |-> <<>>]
NoContent == [kind |-> "None", item |-> MessageDefault, items |-> <<>>]

\* struct ApiResponse with status "OK"
ApiOk(result) == [status |-> "OK", result |-> result]

\* HttpResponse::Ok().json(response)
OkJson(response) ==
  [http |-> 200, content_type |-> "application/json", body |-> response]

\* HttpResponse::Ok().content_type("application/xml; charset=utf-8")
\*   .body(serde_xml_rs::to_string(response).unwrap()); the serialization is
\* taken to succeed.
OkXml(response) ==
  [http |-> 200, content_type |-> "application/xml; charset=utf-8",
   body |-> response]

\* web::Redirect::to(location).see_other()
SeeOther(location) ==
  [http |-> 303, content_type |-> "", body |-> location]

\* No response: the handler panicked.
NoResponse == [http |-> 0, content_type |-> "", body |-> <<>>]

\* Mutant of build_response: the token is compared without regard to case.
build_response_nocase(format, response) ==
  IF format = None THEN OkJson(response)
  ELSE IF format[1] \in {"xml", "XML"} THEN OkXml(response)
  ELSE OkJson(response)

\* fn build_response(format: Option<&str>, response: &ApiResponse)
build_response(format, response) ==
  IF format = None THEN OkJson(response)
  ELSE IF format[1] = "xml" THEN OkXml(response)
  ELSE OkJson(response)

\* A handler's outcome: that of the store call it makes, and its response.
Handled(r, response) ==
  [outcome |-> r.outcome, file |-> r.file, item |-> r.item,
   items |-> r.items,
   response |-> IF r.outcome = "ok" THEN response ELSE NoResponse]

\* pub async fn api_index(query)
api_index(f, format) ==
  LET r == get_all(f)
  IN  Handled(r, build_response(format, ApiOk(Items(r.items))))

\* Mutant of api_show: a zero-valued Message is answered with 404.
api_show_not_found(f, id, format) ==
  LET r == get(f, id)
  IN  Handled(r, IF r.item = MessageDefault
                   THEN [http |-> 404, content_type |-> "application/json",
                         body |-> [status |-> "Error", result |-> NoContent]]
                   ELSE build_response(format, ApiOk(Item(r.item))))

\* pub async fn api_show(id, query)
api_show(f, id, format) ==
  LET r == get(f, id)
  IN  Handled(r, build_response(format, ApiOk(Item(r.item))))

\* Mutant of api_create: posted is taken from the body.
api_create_body_posted(f, params, now, checks) ==
  LET message == [id |-> 0, posted |-> params.posted,
                  sender |-> params.sender, content |-> params.content]
      r == create(f, message, checks)
  IN  Handled(r, build_response(Some("json"), ApiOk(Item(r.item))))

\* pub async fn api_create(params)
api_create(f, params, now, checks) ==
  LET message == [id |-> 0, posted |-> format_time(now),
                  sender |-> params.sender, content |-> params.content]
      r == create(f, message, checks)
  IN  Handled(r, build_response(Some("json"), ApiOk(Item(r.item))))

\* pub async fn api_update(params)
api_update(f, params) ==
  LET message == [id |-> params.id, posted |-> params.posted,
                  sender |-> params.sender, content |-> params.content]
      r == update(f, message)
  IN  Handled(r, build_response(Some("json"), ApiOk(Item(message))))

\* pub async fn api_delete(id, query)
api_delete(f, id, format) ==
  LET r == remove(f, id)
  IN  Handled(r, build_response(format, ApiOk(NoContent)))

\* routes::create(params: web::Form<CreateForm>)
form_create(f, params, now, checks) ==
  LET message == [id |-> 0, posted |-> format_time(now),
                  sender |-> params.sender, content |-> params.content]
      r == create(f, message, checks)
  IN  Handled(r, SeeOther(<<"/posts/", r.item.id>>))

\* routes::show(info): the page shows the post unless get returned
\* Message::default().
show(f, info) ==
  LET post == get(f, info).item
  IN  [http |-> 200, content_type |-> "text/html; charset=utf-8",
       body |-> IF post # MessageDefault THEN Some(post) ELSE None]

\* ------------------------------------------------------------------ state
VARIABLES
  file,         \* data.json
  call,         \* the last call: [op, id, message, before]
  ret,          \* what the last call produced: [outcome, item, items]
  priorRemove,  \* about the call before the last one, when it was a remove:
                \* Some([id, hit, top, outcome]), hit: a record had that id,
                \* top: that id was the highest stored id; None otherwise
  lineage,      \* Some(record of the run since the empty store), or None
                \* when the run did not start from an empty store:
                \*   creates    create calls so far, until the first remove
                \*   removeSeen a remove call has happened
                \*   assigned   ids create has assigned so far
                \*   retired    assigned ids whose record remove took out
  procs,        \* the concurrent calls, one per worker:
                \*   pc      "idle", "read" (the file is read, not yet
                \*           written) or "done" (the call has returned)
                \*   op, message, id   the call and its argument
                \*   snap    the file as the call read it
                \*   item    the Message the call returned
                \*   stale   the file was no longer snap when the call wrote
  lastWriter,   \* the worker whose call wrote data.json last, 0 if none
  http          \* the last request a handler served and its response:
                \*   format, now   the format parameter, the clock
                \*   response      [http, content_type, body]

vars == <<file, disk, call, ret, priorRemove, lineage, procs, lastWriter,
          http>>

NoCall == [id |-> 0, message |-> MessageDefault, op |-> "none",
           before |-> FileMissing]

ids_of(messages) == {messages[i].id : i \in 1 .. Len(messages)}

\* The workers that serve requests at the same time.
Procs == {1, 2}

IdleProc == [id |-> 0, item |-> MessageDefault, message |-> MessageDefault,
             op |-> "none", pc |-> "idle", snap |-> FileMissing,
             stale |-> FALSE]

InitCalls ==
  /\ call = NoCall
  /\ ret = [outcome |-> "ok", item |-> MessageDefault, items |-> <<>>]
  /\ priorRemove = None
  /\ procs = [p \in Procs |-> IdleProc]
  /\ lastWriter = 0
  /\ http = [format |-> None, now |-> 0, response |-> NoResponse]

\* The empty store: no data.json yet, or data.json holding "[]".
Init ==
  /\ file \in {FileMissing, to_string(<<>>)}
  /\ disk = "ok"
  /\ InitCalls
  /\ lineage = Some([creates |-> 0, removeSeen |-> FALSE, assigned |-> {},
                     retired |-> {}])

\* Sequences over S of length at most n.
SeqsUpTo(S, n) == UNION {[1 .. k -> S] : k \in 0 .. n}

StoredMessages == {Message(i, p) : i \in StoredIds, p \in StoredPayloads}

\* Any data.json: absent, unreadable, malformed, or any array of messages
\* (ids in any order, repeated, zero or negative).
InitStored ==
  /\ file \in
       {FileMissing}
       \cup {[kind |-> k, messages |-> ms] :
               k \in {"unreadable", "malformed", "json"},
               ms \in SeqsUpTo(StoredMessages, MaxStored)}
  /\ disk = "ok"
  /\ InitCalls
  /\ lineage = None

\* Any array of messages, or no file, on a volume that refuses the writes.
InitFault ==
  /\ file \in
       {FileMissing}
       \cup {to_string(ms) : ms \in SeqsUpTo(StoredMessages, MaxStored)}
  /\ disk \in {"denied", "full"}
  /\ InitCalls
  /\ lineage = None

\* Record a finished call of the store.
Finish(op, id, message, r) ==
  /\ UNCHANGED http
  /\ file' = r.file
  /\ UNCHANGED <<disk, procs, lastWriter>>
  /\ call' = [op |-> op, id |-> id, message |-> message, before |-> file]
  /\ ret' = [outcome |-> r.outcome, item |-> r.item, items |-> r.items]
  /\ priorRemove' =
       IF call.op = "remove"
         THEN LET was == read_messages_from_file(call.before)
              IN  Some([id |-> call.id,
                        hit |-> call.id \in ids_of(was),
                        top |-> call.id \in ids_of(was)
                                /\ \A i \in ids_of(was) : i <= call.id,
                        outcome |-> ret.outcome])
         ELSE None

\* The lineage after a create call that produced r.
LineageCreated(r) ==
  IF lineage = None THEN None
  ELSE Some([lineage[1] EXCEPT
               !.creates = IF lineage[1].removeSeen THEN 0 ELSE @ + 1,
               !.assigned = IF r.outcome = "ok" THEN @ \cup {r.item.id}
                            ELSE @])

\* The lineage after remove(id) on a store holding messages.
LineageRemoved(id, messages) ==
  IF lineage = None THEN None
  ELSE Some([lineage[1] EXCEPT
               !.creates = 0,
               !.removeSeen = TRUE,
               !.retired = @ \cup ({id} \cap lineage[1].assigned
                                       \cap ids_of(messages))])

CallGetAll ==
  /\ Finish("get_all", 0, MessageDefault, get_all(file))
  /\ UNCHANGED lineage

CallGet ==
  \E id \in ArgIds :
    /\ Finish("get", id, MessageDefault, get(file, id))
    /\ UNCHANGED lineage

\* create is called while the store is below the bounds of the model; the
\* build profile is either one.
CallCreate ==
  \E cid \in CandidateIds, p \in Payloads, overflow_checks \in BOOLEAN :
    LET messages == read_messages_from_file(file)
        r == create(file, Message(cid, p), overflow_checks)
    IN  /\ Len(messages) < MaxLen
        /\ max_id(messages) < MaxId
        /\ Finish("create", cid, Message(cid, p), r)
        /\ lineage' = LineageCreated(r)

CallUpdate ==
  \E id \in ArgIds, p \in Payloads :
    /\ Finish("update", id, Message(id, p), update(file, Message(id, p)))
    /\ UNCHANGED lineage

CallRemove ==
  \E id \in ArgIds :
    /\ Finish("remove", id, MessageDefault, remove(file, id))
    /\ lineage' = LineageRemoved(id, read_messages_from_file(file))

Next ==
  \/ CallGetAll
  \/ CallGet
  \/ CallCreate
  \/ CallUpdate
  \/ CallRemove

\* Calls one at a time on a store that starts empty.
Spec == Init /\ [][Next]_vars

\* Calls one at a time on any stored collection.
SpecStored == InitStored /\ [][Next]_vars

\* Calls one at a time while every write fails.
SpecFault == InitFault /\ [][Next]_vars

\* -------------------------------------------------- ids near i32::MAX
\* Stored ids at and next to the ends of i32.
WideIds == {1, MaxI32 - 1, MaxI32}

WideMessages == {Message(i, p) : i \in WideIds, p \in Payloads}

\* data.json holds any array of messages whose ids may reach i32::MAX.
InitWide ==
  /\ file \in {to_string(ms) : ms \in SeqsUpTo(WideMessages, MaxStored)}
  /\ disk = "ok"
  /\ InitCalls
  /\ lineage = None

\* create is called whatever the highest stored id is; the build profile is
\* either one.
CallCreateWide ==
  \E cid \in CandidateIds, p \in Payloads, overflow_checks \in BOOLEAN :
    LET messages == read_messages_from_file(file)
        r == create(file, Message(cid, p), overflow_checks)
    IN  /\ Len(messages) <= MaxStored
        /\ Finish("create", cid, Message(cid, p), r)
        /\ UNCHANGED lineage

NextWide ==
  \/ CallGetAll
  \/ CallCreateWide

\* Calls on a store whose ids may reach i32::MAX.
SpecWide == InitWide /\ [][NextWide]_vars

\* ----------------------------------------------------------- the handlers
\* The empty store, served by the handlers one request at a time.
InitApi ==
  /\ file \in {FileMissing, to_string(<<>>)}
  /\ disk = "ok"
  /\ InitCalls
  /\ lineage = None

\* Record a served request: the handler op got id or message (its path or
\* body), the format parameter and the clock, and produced h.
Served(op, id, message, format, now, h) ==
  /\ file' = h.file
  /\ call' = [op |-> op, id |-> id, message |-> message, before |-> file]
  /\ ret' = [outcome |-> h.outcome, item |-> h.item, items |-> h.items]
  /\ http' = [format |-> format, now |-> now, response |-> h.response]
  /\ priorRemove' = None
  /\ UNCHANGED <<disk, lineage, procs, lastWriter>>

\* The ids the clients name in a path or a body.
ApiIds == {-1, 0} \cup (1 .. MaxApiId)

\* The bodies and forms the clients submit.
Bodies == {Message(i, p) : i \in CandidateIds, p \in Payloads}

ApiIndex ==
  \E format \in Formats :
    Served("api_index", 0, MessageDefault, format, 0, api_index(file, format))

ApiShow ==
  \E id \in ApiIds, format \in Formats :
    Served("api_show", id, MessageDefault, format, 0,
           api_show(file, id, format))

ApiCreate ==
  \E params \in Bodies, now \in Clock, overflow_checks \in BOOLEAN :
    LET messages == read_messages_from_file(file)
    IN  /\ max_id(messages) < MaxApiId
        /\ Served("api_create", params.id, params, None, now,
                  api_create(file, params, now, overflow_checks))

ApiUpdate ==
  \E id \in ApiIds, p \in Payloads :
    Served("api_update", id, Message(id, p), None, 0,
           api_update(file, Message(id, p)))

ApiDelete ==
  \E id \in ApiIds, format \in Formats :
    Served("api_delete", id, MessageDefault, format, 0,
           api_delete(file, id, format))

FormCreate ==
  \E params \in Bodies, now \in Clock, overflow_checks \in BOOLEAN :
    LET messages == read_messages_from_file(file)
    IN  /\ max_id(messages) < MaxApiId
        /\ Served("form_create", params.id, params, None, now,
                  form_create(file, params, now, overflow_checks))

NextApi ==
  \/ ApiIndex
  \/ ApiShow
  \/ ApiCreate
  \/ ApiUpdate
  \/ ApiDelete
  \/ FormCreate

\* Requests served one at a time on a store that starts empty.
SpecApi == InitApi /\ [][NextApi]_vars

\* ------------------------------------------------------ concurrent calls
\* A mutating call is two steps, the whole-file read of
\* read_messages_from_file and the whole-file write of fs::write (update of
\* an absent id has no write); nothing orders the steps of two calls.

\* The (posted, sender, content) worker p submits.
PayloadOf(p) ==
  IF p = 1 THEN [posted |-> <<>>, sender |-> "", content |-> ""]
  ELSE [posted |-> <<2>>, sender |-> "b", content |-> "y"]

\* Ids the concurrent calls pass to update and remove.
ConcIds == 1 .. MaxConcId

\* The empty store and idle workers.
InitConc ==
  /\ file \in {FileMissing, to_string(<<>>)}
  /\ disk = "ok"
  /\ InitCalls
  /\ lineage = None

\* Worker p starts op and reads the file.
ReadStep(p, op, id, message) ==
  /\ procs[p].pc # "read"
  /\ procs' = [procs EXCEPT ![p] =
                 [pc |-> "read", op |-> op, message |-> message, id |-> id,
                  snap |-> file, item |-> MessageDefault, stale |-> FALSE]]
  /\ UNCHANGED <<file, disk, call, ret, priorRemove, lineage, lastWriter,
                 http>>

\* create: let mut messages = read_messages_from_file(DATA_FILENAME);
ReadCreate(p) ==
  /\ max_id(read_messages_from_file(file)) < MaxConcId
  /\ ReadStep(p, "create", 0, Message(0, PayloadOf(p)))

\* update: let mut messages = read_messages_from_file(DATA_FILENAME);
ReadUpdate(p) ==
  \E id \in ConcIds : ReadStep(p, "update", id, Message(id, PayloadOf(p)))

\* remove: let mut messages = read_messages_from_file(DATA_FILENAME);
ReadRemove(p) ==
  \E id \in ConcIds : ReadStep(p, "remove", id, MessageDefault)

\* What the call of worker p computes from the file it read.
Computed(p, checks) ==
  IF procs[p].op = "create"
    THEN create(procs[p].snap, procs[p].message, checks)
  ELSE IF procs[p].op = "update"
    THEN update(procs[p].snap, procs[p].message)
  ELSE remove(procs[p].snap, procs[p].id)

\* Worker p goes through the rest of its call: it writes what it computed
\* from its snapshot, if the call writes, and returns.
WriteStep(p) ==
  /\ procs[p].pc = "read"
  /\ \E overflow_checks \in BOOLEAN :
       LET r == Computed(p, overflow_checks)
       IN  /\ file' = IF r.wrote THEN r.file ELSE file
           /\ lastWriter' = IF r.wrote THEN p ELSE lastWriter
           /\ procs' = [procs EXCEPT ![p] =
                          [@ EXCEPT !.pc = "done", !.item = r.item,
                                    !.stale = r.wrote /\ file # procs[p].snap]]
  /\ UNCHANGED <<disk, call, ret, priorRemove, lineage, http>>

NextConc ==
  \E p \in Procs :
    \/ ReadCreate(p)
    \/ ReadUpdate(p)
    \/ ReadRemove(p)
    \/ WriteStep(p)

\* Calls of two workers interleaved on a store that starts empty.
SpecConc == InitConc /\ [][NextConc]_vars

\* ------------------------------------------------------------- properties
\* The stored collection: the array data.json holds, empty when there is no
\* such array.
Stored(f) == IF f.kind = "json" THEN f.messages ELSE <<>>

\* The collection the last call found.
Found == Stored(call.before)

\* The id after the highest id of L, 1 for the empty collection.
NextIdOf(L) ==
  IF L = <<>> THEN 1
  ELSE (CHOOSE m \in ids_of(L) : \A n \in ids_of(L) : n <= m) + 1

\* Indices of the records of L whose id is id.
Hits(L, id) == {i \in 1 .. Len(L) : L[i].id = id}

\* The least element of a non-empty set of indices.
First(S) == CHOOSE i \in S : \A j \in S : i <= j

\* C1: create(candidate) on a stored collection L persists L followed by one
\* new record whose id is max(ids of L)+1 (1 when L is empty) and whose
\* posted, sender and content are the candidate's, whatever the candidate's
\* id; the records of L are kept unchanged and in order; the value returned
\* is the stored record.
C1_CreateAppendsNextId ==
  call.op = "create" =>
    LET new == [id |-> NextIdOf(Found), posted |-> call.message.posted,
                sender |-> call.message.sender,
                content |-> call.message.content]
    IN  /\ ret.outcome = "ok"
        /\ file = [kind |-> "json", messages |-> Found \o <<new>>]
        /\ ret.item = new

\* create on two records whose ids are not in increasing order, with a
\* candidate whose id is not the id assigned.
C1_Witness ==
  /\ call.op = "create"
  /\ Len(Found) = 2
  /\ Found[1].id > Found[2].id
  /\ call.message.id # ret.item.id
  /\ Len(Stored(file)) = 3

\* C2: from an empty store, after any sequence of create, update and remove
\* calls, no two records of the stored collection have the same id.
C2_UniqueIds ==
  \A i, j \in 1 .. Len(Stored(file)) :
    i # j => Stored(file)[i].id # Stored(file)[j].id

\* A create that follows a removal and leaves three records.
C2_Witness ==
  /\ call.op = "create"
  /\ lineage[1].retired # {}
  /\ Len(Stored(file)) = 3

\* C3: from an empty store, the k-th create of a run without remove returns
\* id k; the create that follows the removal of the record with the highest
\* id returns max(remaining ids)+1 (1 if no record remains).
C3_IdMonotonicity ==
  call.op = "create" =>
    /\ ~lineage[1].removeSeen => ret.item.id = lineage[1].creates
    /\ (priorRemove # None /\ priorRemove[1].top) =>
         ret.item.id = NextIdOf(Found)

\* The create that follows the removal of the highest id, records remaining.
C3_Witness ==
  /\ call.op = "create"
  /\ priorRemove # None
  /\ priorRemove[1].top
  /\ Found # <<>>
  /\ ret.item.id = priorRemove[1].id

\* C4 as stated: once create has assigned an id and that record has been
\* removed, no later create assigns that id again.
C4_NeverReused ==
  call.op = "create" => ret.item.id \notin lineage[1].retired

\* C4 as amended: create assigns an id that was assigned and removed before
\* only when every record still stored has a lower id.
C4_ReusedOnlyAboveStored ==
  (call.op = "create" /\ ret.item.id \in lineage[1].retired) =>
    \A m \in ids_of(Found) : m < ret.item.id

\* A removed id is assigned again while a record remains.
C4_Witness ==
  /\ call.op = "create"
  /\ ret.item.id \in lineage[1].retired
  /\ Found # <<>>

\* C5: update(record) replaces the first stored record whose id is record.id
\* at its position and leaves every other record, the order and the length
\* unchanged; when no stored record has that id the file is left as it was;
\* no error is raised.
C5_UpdateInPlace ==
  call.op = "update" =>
    LET hits == Hits(Found, call.message.id)
    IN  /\ ret.outcome = "ok"
        /\ hits = {} => file = call.before
        /\ hits # {} =>
             /\ file.kind = "json"
             /\ Len(file.messages) = Len(Found)
             /\ \A i \in 1 .. Len(Found) :
                  file.messages[i] =
                    IF i = First(hits) THEN call.message ELSE Found[i]
             /\ ids_of(file.messages) = ids_of(Found)

\* update of an id that two different stored records carry.
C5_Witness ==
  /\ call.op = "update"
  /\ Cardinality(Hits(Found, call.message.id)) = 2
  /\ \A i \in Hits(Found, call.message.id) : Found[i] # call.message
  /\ file # call.before

\* C6: after remove(id) the stored collection is the previous one without
\* the records whose id is id, the others unchanged and in the same relative
\* order; when no record has that id the collection is unchanged; no error
\* is raised.
C6_RemoveFilters ==
  call.op = "remove" =>
    LET keep == {i \in 1 .. Len(Found) : Found[i].id # call.id}
    IN  /\ ret.outcome = "ok"
        /\ Len(Stored(file)) = Cardinality(keep)
        /\ \A i \in keep :
             Stored(file)[Cardinality({j \in keep : j <= i})] = Found[i]
        /\ keep = 1 .. Len(Found) => Stored(file) = Found

\* remove of an id that two of three stored records carry.
C6_Witness ==
  /\ call.op = "remove"
  /\ Len(Found) = 3
  /\ Cardinality(Hits(Found, call.id)) = 2
  /\ Len(Stored(file)) = 1

\* C7: a second remove(id) right after remove(id) leaves the collection the
\* first one left, whether the id was present or not, and neither call
\* produces an error.
C7_RemoveIdempotent ==
  (call.op = "remove" /\ priorRemove # None /\ priorRemove[1].id = call.id) =>
    /\ Stored(file) = Found
    /\ ret.outcome = "ok"
    /\ priorRemove[1].outcome = "ok"

\* Two removes of the same id in a row, the first of which took a record out
\* and left another.
C7_Witness ==
  /\ call.op = "remove"
  /\ priorRemove # None
  /\ priorRemove[1].id = call.id
  /\ priorRemove[1].hit
  /\ Stored(file) # <<>>

\* C8: when data.json is missing, unreadable or not a JSON array of
\* messages, get_all returns the empty list and get returns the zero-valued
\* Message for every id, without error.
C8_ReadNeverFails ==
  call.before.kind # "json" =>
    /\ call.op = "get_all" => ret.outcome = "ok" /\ ret.items = <<>>
    /\ call.op = "get" => ret.outcome = "ok" /\ ret.item = MessageDefault

\* get(id) on a malformed file whose text holds an object with that id.
C8_Witness ==
  /\ call.op = "get"
  /\ call.before.kind = "malformed"
  /\ \E i \in 1 .. Len(call.before.messages) :
       /\ call.before.messages[i].id = call.id
       /\ call.before.messages[i] # MessageDefault

\* s >= t in lexicographic order: t is a prefix of s, or s is greater at the
\* first place where they differ.
LexGeq(s, t) ==
  \/ /\ Len(t) <= Len(s)
     /\ \A k \in 1 .. Len(t) : s[k] = t[k]
  \/ \E k \in 1 .. Len(s) :
       /\ k <= Len(t)
       /\ \A j \in 1 .. (k - 1) : s[j] = t[j]
       /\ s[k] > t[k]

\* Number of places of s that hold m.
Count(s, m) == Cardinality({i \in 1 .. Len(s) : s[i] = m})

\* C9: get_all returns a permutation of the stored collection in which every
\* record's posted is lexicographically >= the posted of the record after it.
C9_GetAllSortedDesc ==
  call.op = "get_all" =>
    /\ Len(ret.items) = Len(Found)
    /\ \A i \in 1 .. Len(Found) :
         Count(ret.items, Found[i]) = Count(Found, Found[i])
    /\ \A i \in 1 .. (Len(ret.items) - 1) :
         LexGeq(ret.items[i].posted, ret.items[i + 1].posted)

\* get_all on three records with three posted values stored in increasing
\* order.
C9_Witness ==
  /\ call.op = "get_all"
  /\ Len(Found) = 3
  /\ Found[1].posted = <<>>
  /\ Found[2].posted = <<1, 0>>
  /\ Found[3].posted = <<2>>
  /\ ret.items[1] = Found[3]

\* C10: get(id) returns the first record in stored order whose id is id, the
\* zero-valued Message when there is none, and never raises an error.
C10_GetFirstOrDefault ==
  call.op = "get" =>
    LET hits == Hits(Found, call.id)
    IN  /\ ret.outcome = "ok"
        /\ hits = {} => ret.item = MessageDefault
        /\ hits # {} => ret.item = Found[First(hits)]

\* get of an id that two different stored records carry.
C10_Witness ==
  /\ call.op = "get"
  /\ \E i, j \in Hits(Found, call.id) :
       i < j /\ Found[i] # Found[j] /\ ret.item = Found[i]

\* Two create calls of different workers that have both returned and had
\* read the same file.
SameSnapshotCreates(p, q) ==
  /\ p # q
  /\ procs[p].pc = "done" /\ procs[p].op = "create"
  /\ procs[q].pc = "done" /\ procs[q].op = "create"
  /\ procs[p].snap = procs[q].snap

\* C11: two create calls that read the same snapshot both return the same
\* next id, and the write that lands last replaces the other one: the store
\* then holds the snapshot followed by the record of the last writer only,
\* although both calls returned a record.
C11_LostUpdate ==
  \A p, q \in Procs :
    SameSnapshotCreates(p, q) =>
      /\ procs[p].item.id = procs[q].item.id
      /\ procs[p].item.id = NextIdOf(Stored(procs[p].snap))
      /\ lastWriter = p =>
           Stored(file) = Stored(procs[p].snap) \o <<procs[p].item>>

\* Both workers created on the empty store, both got id 1, the second write
\* found the file changed and the store holds one record.
C11_Witness ==
  \E p, q \in Procs :
    /\ SameSnapshotCreates(p, q)
    /\ Stored(procs[p].snap) = <<>>
    /\ procs[p].item.id = 1 /\ procs[q].item.id = 1
    /\ procs[p].item # procs[q].item
    /\ lastWriter = p /\ procs[p].stale
    /\ Stored(file) = <<procs[p].item>>

\* C20: under every interleaving of the read steps and write steps of
\* concurrent create, update and remove calls on a store that starts empty,
\* no two records of the persisted collection have the same id.
C20_UniqueIdsConcurrent ==
  \A i, j \in 1 .. Len(Stored(file)) :
    i # j => Stored(file)[i].id # Stored(file)[j].id

\* An update wrote two records over a file that had changed since the call
\* read it, after the other worker's create had returned the id of one of
\* them.
C20_Witness ==
  \E p, q \in Procs :
    /\ p # q
    /\ procs[p].pc = "done" /\ procs[p].op = "update" /\ procs[p].stale
    /\ lastWriter = p
    /\ procs[q].pc = "done" /\ procs[q].op = "create"
    /\ procs[q].item.id \in ids_of(Stored(file))
    /\ Len(Stored(file)) = 2

\* C12: every id create assigns is a positive integer, for every stored
\* collection, also one whose ids are all zero or negative.
C12_AssignedIdPositive ==
  (call.op = "create" /\ ret.outcome = "ok") => ret.item.id >= 1

\* C13: the handlers that honour the format parameter (api_index, api_show,
\* api_delete) answer 200 with an XML body exactly when the parameter is
\* the token "xml"; with no parameter or any other token ("yaml", "XML",
\* the empty string) they answer 200 with a JSON body; api_create and
\* api_update answer with JSON always.
C13_FormatNegotiation ==
  /\ call.op \in {"api_index", "api_show", "api_delete"} =>
       /\ ret.outcome = "ok"
       /\ http.response.http = 200
       /\ http.response.content_type =
            (IF http.format = Some("xml")
               THEN "application/xml; charset=utf-8"
               ELSE "application/json")
  /\ (call.op \in {"api_create", "api_update"} /\ ret.outcome = "ok") =>
       /\ http.response.http = 200
       /\ http.response.content_type = "application/json"

C13_Witness ==
  /\ call.op = "api_index"
  /\ http.format = Some("XML")
  /\ Len(http.response.body.result.items) = 2
  /\ http.response.content_type = "application/json"

\* C14: api_show, api_update and api_delete of an id no stored record has
\* answer 200 with status "OK": api_show carries the zero-valued Message,
\* api_update echoes the submitted message and leaves the store as it was,
\* api_delete carries the None marker.
C14_AbsentIdAnswersOk ==
  (/\ call.op \in {"api_show", "api_update", "api_delete"}
   /\ Hits(Stored(call.before), call.id) = {}) =>
    /\ ret.outcome = "ok"
    /\ http.response.http = 200
    /\ http.response.body.status = "OK"
    /\ call.op = "api_show" =>
         http.response.body.result = Item(MessageDefault)
    /\ call.op = "api_update" =>
         /\ http.response.body.result = Item(call.message)
         /\ file = call.before
    /\ call.op = "api_delete" => http.response.body.result = NoContent

C14_Witness ==
  /\ call.op = "api_update"
  /\ call.id = 2
  /\ call.message.sender = "b"
  /\ ids_of(Stored(call.before)) = {1}
  /\ http.response.body.result.item.id = 2
  /\ file = call.before

\* C15: a create request, through the API or the form, stores and returns
\* the same record whatever id and posted it submitted: on the same store
\* at the same clock time every other submitted id and posted gives the
\* same stored collection and the same returned record, whose id is the
\* store's next id and whose posted is the clock time.
C15_CreateIgnoresIdAndPosted ==
  (call.op \in {"api_create", "form_create"} /\ ret.outcome = "ok") =>
    /\ ret.item.id = NextIdOf(Stored(call.before))
    /\ ret.item.posted = format_time(http.now)
    /\ \A i \in CandidateIds, p \in Payloads, checks \in BOOLEAN :
         LET other == [call.message EXCEPT !.id = i, !.posted = p.posted]
             h == IF call.op = "api_create"
                    THEN api_create(call.before, other, http.now, checks)
                    ELSE form_create(call.before, other, http.now, checks)
         IN  /\ h.outcome = "ok"
             /\ h.file = file
             /\ h.item = ret.item
             /\ h.response = http.response

C15_Witness ==
  /\ call.op = "form_create"
  /\ call.message.id = 2
  /\ call.message.posted = <<2>>
  /\ http.now = 4
  /\ ret.item.id = 2
  /\ ret.item.posted = <<4>>
  /\ Len(Found) = 1

\* C16: get_all and get leave data.json exactly as it was, whatever it
\* held (an array of messages in any order, nothing, or text that does not
\* parse); the order get_all returns is not written back.
C16_ReadsLeaveFile ==
  call.op \in {"get_all", "get"} =>
    /\ ret.outcome = "ok"
    /\ file = call.before

C16_Witness ==
  /\ call.op = "get_all"
  /\ file.kind = "json"
  /\ Len(ret.items) = 2
  /\ ret.items # file.messages
  /\ file = call.before

\* C17: when writing data.json fails, create, update of a stored id and
\* remove do not return to their caller: create hands back no record and
\* none of the three reports the mutation as done.
C17_WriteFailureSurfaced ==
  (/\ disk # "ok"
   /\ \/ call.op \in {"create", "remove"}
      \/ call.op = "update" /\ Hits(Found, call.id) # {}) =>
    ret.outcome = "panic"

C17_Witness ==
  /\ disk = "full"
  /\ call.op = "update"
  /\ Hits(Found, call.id) # {}
  /\ ret.outcome = "panic"
  /\ file = FileTruncated

C19_DefaultIffAbsent ==
  call.op = "get" =>
    /\ (ret.item = MessageDefault) <=> (Hits(Found, call.id) = {})
    /\ (show(call.before, call.id).body = None) <=>
         (Hits(Found, call.id) = {})

C19_Witness ==
  /\ call.op = "get"
  /\ call.id = 1
  /\ Hits(Found, 1) # {}
  /\ ret.item = Message(1, [posted |-> <<>>, sender |-> "", content |-> ""])
  /\ show(call.before, 1).body # None

\* C21: a remove(id) that has returned stays in force when a create or an
\* update of the other worker, which read data.json before the remove wrote
\* it, writes afterwards: no record with that id is stored again, unless
\* that create assigned the id.
C21_RemoveDurable ==
  \A p, q \in Procs :
    (/\ p # q
     /\ procs[q].pc = "done" /\ procs[q].op = "remove"
     /\ procs[p].pc = "done" /\ procs[p].op \in {"create", "update"}
     /\ procs[p].stale
     /\ lastWriter = p) =>
      \/ Hits(Stored(file), procs[q].id) = {}
      \/ procs[p].op = "create" /\ procs[p].item.id = procs[q].id

\* C22: for every stored collection, also one whose highest id is
\* 2147483647, create returns and the id it assigns is greater than every
\* id stored before: max + 1 neither wraps around nor aborts.
C22_NextIdAboveAll ==
  call.op = "create" =>
    /\ ret.outcome = "ok"
    /\ \A i \in 1 .. Len(Found) : ret.item.id > Found[i].id

====
